---- MODULE Spec2Model ----
(***************************************************************************)
(* RustDB (src/src/main.rs): a line-oriented interpreter over tables that  *)
(* are each persisted as one JSON document data/<name>.json.               *)
(*                                                                         *)
(* A token is a sequence of lexemes (strings); a line is a sequence of     *)
(* lexemes in which " " is whitespace.  A column spec such as a:int is the *)
(* token <<"a", ":", "int">>, so that split(':') is computed.  Numbers are *)
(* sequences of characters, so that parse::<i32>() and parse::<f32>() are  *)
(* computed.                                                               *)
(***************************************************************************)
EXTENDS Integers, Sequences, FiniteSets, TLC

VARIABLES
    store,  \* the directory data/: table name -> contents of <name>.json
    pc,     \* position of main: "prompt", "read", "done", "exited", "panicked"
    t,      \* the tokens of the line being executed (main.rs:196)
    out,    \* what the command printed (or the panic that ended the process)
    n,      \* number of lines read so far (bounds the exploration)
    inserted, \* history: table name -> the rows of the INSERTs that succeeded on
              \* it since the CREATE that made it, as coerced, in order
    procs   \* interpreter processes started on one data/ directory: for each
            \* its position, tokens, output, and the table insert_row holds
            \* in memory (base as loaded, table as it will be saved)

vars == <<store, pc, t, out, n, inserted, procs>>

\* ------------------------------------------------------------------ bounds
MaxCmds == 5    \* lines read, over all sessions on one data directory

\* --------------------------------------------------------------- constants
I32Max == 2147483647
I32Min == -2147483647 - 1

\* ----------------------------------------------------------------- helpers
Range(s) == {s[i] : i \in 1..Len(s)}

Digits == {"0", "1", "2", "3", "4", "5", "6", "7", "8", "9"}

DigitVal(c) ==
    CASE c = "0" -> 0 [] c = "1" -> 1 [] c = "2" -> 2 [] c = "3" -> 3
      [] c = "4" -> 4 [] c = "5" -> 5 [] c = "6" -> 6 [] c = "7" -> 7
      [] c = "8" -> 8 [] c = "9" -> 9

\* The function f extended (or overwritten) at key k.
Put(f, k, v) == [x \in (DOMAIN f) \cup {k} |-> IF x = k THEN v ELSE f[x]]

\* The function f without key k.
Remove(f, k) == [x \in (DOMAIN f) \ {k} |-> f[x]]

EmptyMap == [x \in {} |-> <<>>]

\* --------------------------------------------------------------- tokenizer
Whitespace == {" ", "\n"}

\* input.trim().split_whitespace().collect()
RECURSIVE SplitWs(_, _, _)
SplitWs(line, cur, acc) ==
    IF line = <<>>
    THEN IF cur = <<>> THEN acc ELSE Append(acc, cur)
    ELSE IF Head(line) \in Whitespace
         THEN SplitWs(Tail(line), <<>>, IF cur = <<>> THEN acc ELSE Append(acc, cur))
         ELSE SplitWs(Tail(line), Append(cur, Head(line)), acc)

tokenize(input) == SplitWs(input, <<>>, <<>>)

\* c.split(':').collect(): the parts between the colons, empty parts kept.
RECURSIVE SplitColon(_, _, _)
SplitColon(c, cur, acc) ==
    IF c = <<>>
    THEN Append(acc, cur)
    ELSE IF Head(c) = ":"
         THEN SplitColon(Tail(c), <<>>, Append(acc, cur))
         ELSE SplitColon(Tail(c), Append(cur, Head(c)), acc)

split(c) == SplitColon(c, <<>>, <<>>)

\* ------------------------------------------------------------------ values
\* The digits of an i32 literal, accumulated from the left as from_str does:
\* upwards for a positive number, downwards for a negative one, with every
\* multiplication and addition checked against the range of i32.
RECURSIVE Accumulate(_, _, _)
Accumulate(digits, acc, neg) ==
    IF digits = <<>>
    THEN [ok |-> TRUE, v |-> acc]
    ELSE LET d == DigitVal(Head(digits))
         IN  IF neg
             THEN IF acc < (I32Min + d + 9) \div 10
                  THEN [ok |-> FALSE, v |-> 0]
                  ELSE Accumulate(Tail(digits), acc * 10 - d, neg)
             ELSE IF acc > (I32Max - d) \div 10
                  THEN [ok |-> FALSE, v |-> 0]
                  ELSE Accumulate(Tail(digits), acc * 10 + d, neg)

\* raw.parse::<i32>(): an optional sign, then one or more digits, in range.
ParseI32(raw) ==
    LET signed == raw # <<>> /\ Head(raw) \in {"+", "-"}
        body   == IF signed THEN Tail(raw) ELSE raw
        neg    == signed /\ Head(raw) = "-"
    IN  IF body = <<>> \/ ~(Range(body) \subseteq Digits)
        THEN [ok |-> FALSE, v |-> 0]
        ELSE Accumulate(body, 0, neg)

\* The digits of s without its trailing zeros, and without its leading zeros.
RECURSIVE StripZeros(_)
StripZeros(s) ==
    IF s # <<>> /\ s[Len(s)] = "0" THEN StripZeros(SubSeq(s, 1, Len(s) - 1)) ELSE s

RECURSIVE StripLeadingZeros(_)
StripLeadingZeros(s) ==
    IF s # <<>> /\ Head(s) = "0" THEN StripLeadingZeros(Tail(s)) ELSE s

\* The f32 slot of a cell that is not a float.
NoF32 == [cls |-> "none", neg |-> FALSE, digits |-> <<>>, e |-> 0]

\* raw.parse::<f32>(): an optional sign, then nan, inf, infinity, or a decimal
\* number with digits on at least one side of an optional point.  A finite
\* value is kept as the decimal it denotes, digits * 10^-e without leading or
\* trailing zeros (tokens of up to 6 significant digits denote distinct f32
\* values); NaN and the infinities are values of their own.
ParseF32(raw) ==
    LET signed == raw # <<>> /\ Head(raw) \in {"+", "-"}
        body   == IF signed THEN Tail(raw) ELSE raw
        neg    == signed /\ Head(raw) = "-"
        dots   == {i \in 1..Len(body) : body[i] = "."}
        ip     == IF dots = {} THEN body
                  ELSE SubSeq(body, 1, (CHOOSE i \in dots : TRUE) - 1)
        fp     == IF dots = {} THEN <<>>
                  ELSE StripZeros(SubSeq(body, (CHOOSE i \in dots : TRUE) + 1, Len(body)))
    IN  IF body \in {<<"NaN">>, <<"nan">>}
        THEN [ok |-> TRUE, v |-> [cls |-> "nan", neg |-> neg, digits |-> <<>>, e |-> 0]]
        ELSE IF body \in {<<"inf">>, <<"infinity">>}
        THEN [ok |-> TRUE, v |-> [cls |-> "inf", neg |-> neg, digits |-> <<>>, e |-> 0]]
        ELSE IF Cardinality(dots) > 1
                \/ ~(Range(body) \subseteq Digits \cup {"."})
                \/ Len(body) - Cardinality(dots) = 0
        THEN [ok |-> FALSE, v |-> NoF32]
        ELSE [ok |-> TRUE,
              v |-> [cls |-> "finite", neg |-> neg,
                     digits |-> StripLeadingZeros(ip \o fp), e |-> Len(fp)]]

\* parse_value(typ, raw): ok = FALSE is the panic of unwrap().
parse_value(typ, raw) ==
    IF typ = <<"int">>
    THEN LET r == ParseI32(raw)
         IN  [ok |-> r.ok, val |-> [tag |-> "Integer32", i |-> r.v, f |-> NoF32, s |-> <<>>]]
    ELSE IF typ = <<"float">>
    THEN LET r == ParseF32(raw)
         IN  [ok |-> r.ok, val |-> [tag |-> "Float32", i |-> 0, f |-> r.v, s |-> <<>>]]
    ELSE [ok |-> TRUE, val |-> [tag |-> "String", i |-> 0, f |-> NoF32, s |-> raw]]

\* ------------------------------------------------------------ persistence
\* serde_json writes a non-finite f32 as null.
ToJson(cell) ==
    IF cell.tag = "Float32" /\ cell.f.cls \in {"nan", "inf"}
    THEN [cell EXCEPT !.f = [cls |-> "null", neg |-> FALSE, digits |-> <<>>, e |-> 0]]
    ELSE cell

serialize(table) ==
    [complete |-> TRUE,
     name     |-> table.name,
     fields   |-> table.fields,
     columns  |-> table.columns,
     data     |-> [c \in DOMAIN table.data |->
                     [i \in 1..Len(table.data[c]) |-> ToJson(table.data[c][i])]]]

\* A file whose write did not finish holds a strict prefix of the document,
\* which is never a JSON value (the closing brace comes last).
Truncated(name) ==
    [complete |-> FALSE, name |-> name, fields |-> EmptyMap, columns |-> <<>>,
     data |-> EmptyMap]

\* serde_json::from_reader accepts a complete document in which no Float32
\* holds null.
Deserializable(file) ==
    /\ file.complete
    /\ \A c \in DOMAIN file.data : \A i \in 1..Len(file.data[c]) :
          ~(file.data[c][i].tag = "Float32" /\ file.data[c][i].f.cls = "null")

\* save_table: File::create truncates or creates the file, to_writer_pretty
\* writes the document.
save_table(files, table) == Put(files, table.name, serialize(table))

\* save_table stopped after File::create, before the document is written out.
save_table_interrupted(files, table) == Put(files, table.name, Truncated(table.name))

\* load_table: ok = FALSE is the panic of either unwrap().
load_table(files, name) ==
    IF name \in DOMAIN files /\ Deserializable(files[name])
    THEN [ok |-> TRUE,
          table |-> [name |-> files[name].name, fields |-> files[name].fields,
                     columns |-> files[name].columns, data |-> files[name].data]]
    ELSE [ok |-> FALSE,
          table |-> [name |-> name, fields |-> EmptyMap, columns |-> <<>>,
                     data |-> EmptyMap]]

\* ---------------------------------------------------------------- handlers
\* What a command prints: the kind of message, the spec a syntax error names,
\* the header and rows of a SELECT, the names of SHOW TABLES.
Out(kind) == [kind |-> kind, arg |-> <<>>, header |-> <<>>, rows |-> <<>>, names |-> {}]

NoOut == Out("none")

\* create_table, lines 29-44: the loop over cols, one (name, type) pair each.
RECURSIVE CreateLoop(_, _)
CreateLoop(table, cols) ==
    IF cols = <<>>
    THEN table
    ELSE CreateLoop(
           [table EXCEPT !.fields  = Put(@, Head(cols)[1], Head(cols)[2]),
                         !.columns = Append(@, Head(cols)[1]),
                         !.data    = Put(@, Head(cols)[1], <<>>)],
           Tail(cols))

\* create_table without the line that records the type of a column.
create_table_no_fields(name, cols) ==
    [CreateLoop([name |-> name, fields |-> EmptyMap, columns |-> <<>>, data |-> EmptyMap],
                cols) EXCEPT !.fields = EmptyMap]

create_table(name, cols) ==
    CreateLoop([name |-> name, fields |-> EmptyMap, columns |-> <<>>, data |-> EmptyMap],
               cols)

\* main, lines 204-215: the specs before the first malformed one, and whether
\* there is a malformed one.
RECURSIVE ParseSpecs(_, _)
ParseSpecs(rest, cols) ==
    IF rest = <<>>
    THEN [syntax_error |-> FALSE, cols |-> cols, bad |-> <<>>]
    ELSE LET parts == split(Head(rest))
         IN  IF Len(parts) = 2
             THEN ParseSpecs(Tail(rest), Append(cols, <<parts[1], parts[2]>>))
             ELSE [syntax_error |-> TRUE, cols |-> cols, bad |-> Head(rest)]

\* insert_row, lines 83-88: the loop over the columns from index i on; the
\* table as it is in memory when the loop ends or parse_value panics.
RECURSIVE InsertLoop(_, _, _)
InsertLoop(table, values, i) ==
    IF i > Len(table.columns)
    THEN [ok |-> TRUE, table |-> table, at |-> 0]
    ELSE LET col_name == table.columns[i]
             val      == parse_value(table.fields[col_name], values[i])
         IN  IF ~val.ok
             THEN [ok |-> FALSE, table |-> table, at |-> i]
             ELSE InsertLoop([table EXCEPT !.data[col_name] = Append(@, val.val)],
                             values, i + 1)

\* select_all, lines 105-109.
RowCount(table) ==
    IF table.columns = <<>> THEN 0 ELSE Len(table.data[table.columns[1]])

\* table.data[col][i] for every col of table.columns: an index out of a
\* column's bounds panics.
RowInBounds(table, i) ==
    \A k \in 1..Len(table.columns) : i <= Len(table.data[table.columns[k]])

RowAt(table, i) ==
    [k \in 1..Len(table.columns) |-> table.data[table.columns[k]][i]]

\* select_where, lines 133-141: the lowest index of an Integer32 cell equal
\* to target_id, 0 when there is none.
FoundIndex(column_data, target_id) ==
    LET hits == {i \in 1..Len(column_data) :
                   column_data[i].tag = "Integer32" /\ column_data[i].i = target_id}
    IN  IF hits = {} THEN 0 ELSE CHOOSE i \in hits : \A j \in hits : i <= j

\* ------------------------------------------------------------------ parser
\* The shapes of match t.as_slice(), lines 199-248.
KW(t0, k, word) == Len(t0) >= k /\ t0[k] = <<word>>

MatchCreate(t0) == Len(t0) >= 3 /\ KW(t0, 1, "CREATE") /\ KW(t0, 2, "TABLE")
MatchShow(t0) == Len(t0) = 2 /\ KW(t0, 1, "SHOW") /\ KW(t0, 2, "TABLES")
MatchDrop(t0) == Len(t0) = 3 /\ KW(t0, 1, "DROP") /\ KW(t0, 2, "TABLE")
MatchInsert(t0) == Len(t0) >= 2 /\ KW(t0, 1, "INSERT")
\* The SELECT * FROM shape matched as a prefix: any tokens may follow.
MatchSelectAllPrefix(t0) ==
    Len(t0) >= 4 /\ KW(t0, 1, "SELECT") /\ KW(t0, 2, "*") /\ KW(t0, 3, "FROM")

MatchSelectAll(t0) ==
    Len(t0) = 4 /\ KW(t0, 1, "SELECT") /\ KW(t0, 2, "*") /\ KW(t0, 3, "FROM")
MatchSelectWhere(t0) ==
    /\ Len(t0) = 8 /\ KW(t0, 1, "SELECT") /\ KW(t0, 2, "*") /\ KW(t0, 3, "FROM")
    /\ KW(t0, 5, "WHERE") /\ KW(t0, 7, "=")
MatchHelp(t0) == t0 = << <<"HELP">> >>
MatchExit(t0) == t0 = << <<"EXIT">> >>

\* The first arm that matches, in the order of the source.
Arm(t0) ==
    IF MatchCreate(t0) THEN "create"
    ELSE IF MatchShow(t0) THEN "show"
    ELSE IF MatchDrop(t0) THEN "drop"
    ELSE IF MatchInsert(t0) THEN "insert"
    ELSE IF MatchSelectAll(t0) THEN "select_all"
    ELSE IF MatchSelectWhere(t0) THEN "select_where"
    ELSE IF MatchHelp(t0) THEN "help"
    ELSE IF MatchExit(t0) THEN "exit"
    ELSE "invalid"

\* What a handler leaves behind: the files, the output, and where main is.
Done(files, o) == [files |-> files, out |-> o, pc |-> "done"]
Panicked(files, kind) == [files |-> files, out |-> Out(kind), pc |-> "panicked"]

\* save_table as the handlers call it: the write completes, or (interrupted)
\* it stops after File::create and the process ends.
Saved(files, table, interrupted, o) ==
    IF interrupted
    THEN Panicked(save_table_interrupted(files, table), "panic_save")
    ELSE Done(save_table(files, table), o)

\* The CREATE TABLE arm, lines 200-221, with create_table, lines 28-48.
cmd_create(files, t0, interrupted) ==
    LET p == ParseSpecs(SubSeq(t0, 4, Len(t0)), <<>>)
    IN  IF p.syntax_error
        THEN Done(files, [Out("syntax_error") EXCEPT !.arg = p.bad])
        ELSE Saved(files, create_table(t0[3], p.cols), interrupted, Out("created"))

\* drop_table that reports the table dropped and leaves its file in place.
drop_table_keeps_file(files, name) ==
    IF name \in DOMAIN files
    THEN Done(files, Out("dropped"))
    ELSE Done(files, Out("not_exists"))

\* drop_table, lines 51-59.
drop_table(files, name) ==
    IF name \in DOMAIN files
    THEN Done(Remove(files, name), Out("dropped"))
    ELSE Done(files, Out("not_exists"))

\* show_tables, lines 61-70: the stems of the .json files of data/.
show_tables(files) == Done(files, [Out("tables") EXCEPT !.names = DOMAIN files])

\* insert_row with the arity check written as "fewer values than columns".
insert_row_arity_lt(files, table_name, values, interrupted) ==
    LET l == load_table(files, table_name)
    IN  IF ~l.ok
        THEN Panicked(files, "panic_load")
        ELSE IF Len(values) < Len(l.table.columns)
        THEN Done(files, Out("column_count_mismatch"))
        ELSE LET r == InsertLoop(l.table, values, 1)
             IN  IF ~r.ok
                 THEN Panicked(files, "panic_parse")
                 ELSE Saved(files, r.table, interrupted, Out("inserted"))

\* insert_row that saves the table before it reports a value it cannot parse.
insert_row_saves_partial(files, table_name, values, interrupted) ==
    LET l == load_table(files, table_name)
    IN  IF ~l.ok
        THEN Panicked(files, "panic_load")
        ELSE IF Len(values) # Len(l.table.columns)
        THEN Done(files, Out("column_count_mismatch"))
        ELSE LET r == InsertLoop(l.table, values, 1)
             IN  IF ~r.ok
                 THEN Panicked(save_table(files, r.table), "panic_parse")
                 ELSE Saved(files, r.table, interrupted, Out("inserted"))

\* insert_row, lines 73-92.
insert_row(files, table_name, values, interrupted) ==
    LET l == load_table(files, table_name)
    IN  IF ~l.ok
        THEN Panicked(files, "panic_load")
        ELSE IF Len(values) # Len(l.table.columns)
        THEN Done(files, Out("column_count_mismatch"))
        ELSE LET r == InsertLoop(l.table, values, 1)
             IN  IF ~r.ok
                 THEN Panicked(files, "panic_parse")
                 ELSE Saved(files, r.table, interrupted, Out("inserted"))

\* select_all, lines 94-123.
select_all(files, table_name) ==
    LET l == load_table(files, table_name)
        table == l.table
        row_count == RowCount(table)
    IN  IF ~l.ok
        THEN Panicked(files, "panic_load")
        ELSE IF \E i \in 1..row_count : ~RowInBounds(table, i)
        THEN Panicked(files, "panic_index")
        ELSE Done(files, [Out("rows") EXCEPT
                            !.header = table.columns,
                            !.rows = [i \in 1..row_count |-> RowAt(table, i)]])

\* select_where, lines 126-156.
select_where(files, table_name, col_name, target_id) ==
    LET l == load_table(files, table_name)
        table == l.table
    IN  IF ~l.ok
        THEN Panicked(files, "panic_load")
        ELSE IF col_name \notin DOMAIN table.data
        THEN Done(files, Out("column_not_found"))
        ELSE LET found_index == FoundIndex(table.data[col_name], target_id)
             IN  IF found_index = 0
                 THEN Done(files, Out("no_row"))
                 ELSE IF ~RowInBounds(table, found_index)
                 THEN Panicked(files, "panic_index")
                 ELSE Done(files, [Out("row") EXCEPT
                                     !.rows = <<RowAt(table, found_index)>>])

\* The SELECT ... WHERE arm with the filter value checked only after the
\* table has been loaded.
cmd_select_where_deferred(files, t0) ==
    LET id == ParseI32(t0[8])
    IN  IF ~load_table(files, t0[4]).ok
        THEN Panicked(files, "panic_load")
        ELSE IF id.ok
        THEN select_where(files, t0[4], t0[6], id.v)
        ELSE Done(files, Out("only_integer"))

\* The SELECT ... WHERE arm, lines 235-241.
cmd_select_where(files, t0) ==
    LET id == ParseI32(t0[8])
    IN  IF id.ok
        THEN select_where(files, t0[4], t0[6], id.v)
        ELSE Done(files, Out("only_integer"))

\* ------------------------------------------------------------------ inputs
Names == {<<"t">>, <<"u">>}

aInt   == <<"a", ":", "int">>
aText  == <<"a", ":", "text">>
nText  == <<"n", ":", "text">>
bFloat == <<"b", ":", "float">>

\* Column specs that do not read name:type.
noColon   == <<"a">>
twoColons == <<"a", ":", "int", ":", "x">>
emptyName == <<":", "int">>
emptyType == <<"n", ":">>

CreateArgs ==
    { <<>>, <<aInt>>, <<aInt, nText, bFloat>>, <<aInt, aText>>, <<aInt, aInt, nText>>,
      <<emptyName>>, <<aInt, emptyType>>,
      <<noColon>>, <<aInt, noColon>>, <<twoColons, aInt>>, <<aInt, nText, twoColons>> }

Seven  == <<"7">>
Eight  == <<"8">>
Bob    == <<"bob">>
OneFive == <<"1", ".", "5">>
NaN    == <<"NaN">>
TooBig == <<"2", "1", "4", "7", "4", "8", "3", "6", "4", "8">>

InsertArgs ==
    { <<>>, <<Seven>>, <<Bob>>, <<Seven, Bob>>, <<Seven, Seven, Bob>>,
      <<Seven, Bob, OneFive>>, <<Seven, Seven, OneFive>>, <<Eight, Seven, OneFive>>,
      <<Seven, Bob, NaN>>, <<Seven, Bob, Bob>>, <<Bob, Bob, OneFive>>,
      <<TooBig, Bob, OneFive>> }

WhereCols == {<<"a">>, <<"n">>, <<"z">>}
WhereVals == {Seven, Bob, TooBig}

W(word) == <<word>>

CommandTokens ==
    {<<W("CREATE"), W("TABLE"), nm>> \o a : nm \in Names, a \in CreateArgs}
    \cup {<<W("INSERT"), nm>> \o a : nm \in Names, a \in InsertArgs}
    \cup {<<W("DROP"), W("TABLE"), nm>> : nm \in Names}
    \cup {<<W("SELECT"), W("*"), W("FROM"), nm>> : nm \in Names}
    \cup {<<W("SELECT"), W("*"), W("FROM"), nm, W("WHERE"), c, W("="), v>> :
            nm \in Names, c \in WhereCols, v \in WhereVals}
    \cup { <<W("SHOW"), W("TABLES")>>, <<W("HELP")>>, <<W("EXIT")>>,
           <<>>, <<W("CREATE"), W("TABLE")>>, <<W("INSERT")>>, <<W("help")>>,
           <<W("SHOW"), W("TABLES"), W("now")>> }

\* The tokens of a command as typed: one space between them, a newline after.
RECURSIVE Typed(_)
Typed(tokens) ==
    IF tokens = <<>> THEN <<"\n">>
    ELSE IF Len(tokens) = 1 THEN Head(tokens) \o <<"\n">>
    ELSE Head(tokens) \o <<" ">> \o Typed(Tail(tokens))

Lines ==
    {Typed(c) : c \in CommandTokens}
    \cup { <<" ", "SHOW", " ", " ", "TABLES", " ", "\n">>, <<" ", " ", "EXIT", "\n">> }

\* ----------------------------------------------------------------- actions
\* Two interpreter processes on one data/ directory.
Procs == {1, 2}

NoTable == [name |-> <<>>, fields |-> EmptyMap, columns |-> <<>>, data |-> EmptyMap]

\* A process at its first prompt.
Started == [pc |-> "prompt", t |-> <<>>, out |-> NoOut, base |-> NoTable,
            table |-> NoTable]

Init ==
    /\ store = EmptyMap
    /\ pc = "prompt"
    /\ t = <<>>
    /\ out = NoOut
    /\ n = 0
    /\ inserted = EmptyMap
    /\ procs = [p \in Procs |-> Started]

\* main, lines 191-196: prompt, read a line, tokenize it.
ReadLine ==
    /\ pc = "prompt"
    /\ n < MaxCmds
    /\ \E input \in Lines : t' = tokenize(input)
    /\ pc' = "read"
    /\ n' = n + 1
    /\ UNCHANGED <<store, out, inserted, procs>>

\* The row an INSERT of values appends to the table of file: each value
\* coerced to the declared type of its column, in schema column order.
CoercedRow(file, values) ==
    [k \in 1..Len(file.columns) |->
        parse_value(file.fields[file.columns[k]], values[k]).val]

\* The history after the command t has ended as r: a successful CREATE starts
\* the table's history, a successful INSERT extends it, a DROP ends it.
Recorded(r) ==
    IF Arm(t) = "create" /\ r.out.kind = "created"
    THEN Put(inserted, t[3], <<>>)
    ELSE IF Arm(t) = "insert" /\ r.out.kind = "inserted"
    THEN Put(inserted, t[2],
             Append(IF t[2] \in DOMAIN inserted THEN inserted[t[2]] ELSE <<>>,
                    CoercedRow(store[t[2]], SubSeq(t, 3, Len(t)))))
    ELSE IF Arm(t) = "drop" /\ r.out.kind = "dropped"
    THEN Remove(inserted, t[3])
    ELSE inserted

\* The state a handler leaves.
Apply(r) ==
    /\ store' = r.files
    /\ out' = r.out
    /\ pc' = r.pc
    /\ inserted' = Recorded(r)
    /\ UNCHANGED <<t, n, procs>>

CreateTable == pc = "read" /\ Arm(t) = "create" /\ Apply(cmd_create(store, t, FALSE))

ShowTables == pc = "read" /\ Arm(t) = "show" /\ Apply(show_tables(store))

DropTable == pc = "read" /\ Arm(t) = "drop" /\ Apply(drop_table(store, t[3]))

InsertRow ==
    /\ pc = "read" /\ Arm(t) = "insert"
    /\ Apply(insert_row(store, t[2], SubSeq(t, 3, Len(t)), FALSE))

SelectAll == pc = "read" /\ Arm(t) = "select_all" /\ Apply(select_all(store, t[4]))

SelectWhere == pc = "read" /\ Arm(t) = "select_where" /\ Apply(cmd_select_where(store, t))

\* print_help, lines 158-168.
Help == pc = "read" /\ Arm(t) = "help" /\ Apply(Done(store, Out("help")))

\* ["EXIT"] => break, line 245.
Exit ==
    /\ pc = "read" /\ Arm(t) = "exit"
    /\ pc' = "exited"
    /\ UNCHANGED <<store, t, out, n, inserted, procs>>

\* _ => println!("Invalid command"), line 247.
Invalid == pc = "read" /\ Arm(t) = "invalid" /\ Apply(Done(store, Out("invalid")))

\* The end of one iteration of the loop of main: input is dropped, the next
\* iteration prompts.
Loop ==
    /\ pc = "done"
    /\ pc' = "prompt"
    /\ t' = <<>>
    /\ out' = NoOut
    /\ UNCHANGED <<store, n, inserted, procs>>

Next ==
    \/ ReadLine
    \/ CreateTable
    \/ ShowTables
    \/ DropTable
    \/ InsertRow
    \/ SelectAll
    \/ SelectWhere
    \/ Help
    \/ Exit
    \/ Invalid
    \/ Loop

Spec == Init /\ [][Next]_vars

\* ------------------------------------------------- storage write failures
\* The save of a CREATE stops after File::create (the write fails, or the
\* process is killed): the process ends with the file truncated.
CreateTableInterrupted ==
    /\ pc = "read" /\ Arm(t) = "create"
    /\ ~ParseSpecs(SubSeq(t, 4, Len(t)), <<>>).syntax_error
    /\ Apply(cmd_create(store, t, TRUE))

\* The save of an INSERT stops after File::create.
InsertRowInterrupted ==
    /\ pc = "read" /\ Arm(t) = "insert"
    /\ insert_row(store, t[2], SubSeq(t, 3, Len(t)), FALSE).out.kind = "inserted"
    /\ Apply(insert_row(store, t[2], SubSeq(t, 3, Len(t)), TRUE))

\* The interpreter is started again on the same data/ directory.
Restart ==
    /\ pc \in {"panicked", "exited"}
    /\ pc' = "prompt"
    /\ t' = <<>>
    /\ out' = NoOut
    /\ UNCHANGED <<store, n, inserted, procs>>

NextStorage ==
    \/ Next
    \/ CreateTableInterrupted
    \/ InsertRowInterrupted
    \/ Restart

SpecStorage == Init /\ [][NextStorage]_vars

\* ------------------------------------------- two processes on one directory
\* insert_row, lines 74-88: the table as loaded with the row pushed, in memory.
insert_row_loaded(files, table_name, values) ==
    InsertLoop(load_table(files, table_name).table, values, 1).table

\* The end of insert_row with the row added to the file as it is now rather
\* than the table in memory written over it.
insert_row_save_merged(files, table) ==
    LET l == load_table(files, table.name)
    IN  IF l.ok /\ DOMAIN l.table.data = DOMAIN table.data
        THEN Done(save_table(files,
                     [l.table EXCEPT !.data =
                        [c \in DOMAIN table.data |->
                            Append(l.table.data[c],
                                   table.data[c][Len(table.data[c])])]]),
                  Out("inserted"))
        ELSE Done(save_table(files, table), Out("inserted"))

\* insert_row, lines 90-91: the table in memory is written over the file.
insert_row_save(files, table) == Done(save_table(files, table), Out("inserted"))

\* The arms of main other than INSERT and EXIT.
Handle(files, t0) ==
    CASE Arm(t0) = "create" -> cmd_create(files, t0, FALSE)
      [] Arm(t0) = "show" -> show_tables(files)
      [] Arm(t0) = "drop" -> drop_table(files, t0[3])
      [] Arm(t0) = "select_all" -> select_all(files, t0[4])
      [] Arm(t0) = "select_where" -> cmd_select_where(files, t0)
      [] Arm(t0) = "help" -> Done(files, Out("help"))
      [] Arm(t0) = "invalid" -> Done(files, Out("invalid"))

SharedCommands ==
    { <<W("CREATE"), W("TABLE"), W("t"), aInt, nText>>,
      <<W("INSERT"), W("t"), Seven, Bob>>,
      <<W("INSERT"), W("t"), Eight, Bob>>,
      <<W("INSERT"), W("t"), Seven>>,
      <<W("SELECT"), W("*"), W("FROM"), W("t")>>,
      <<W("DROP"), W("TABLE"), W("t")>>,
      <<W("SHOW"), W("TABLES")>>,
      <<W("EXIT")>> }

SharedLines == {Typed(c) : c \in SharedCommands}

\* main, lines 191-196, in process p.
SharedReadLine(p) ==
    /\ procs[p].pc = "prompt"
    /\ n < MaxCmds
    /\ \E input \in SharedLines :
          procs' = [procs EXCEPT ![p].t = tokenize(input), ![p].pc = "read"]
    /\ n' = n + 1
    /\ UNCHANGED <<store, pc, t, out, inserted>>

\* insert_row, lines 74-88, in process p: the file is read and the row is
\* pushed in memory, or the command ends as insert_row ends it.
SharedInsertLoad(p) ==
    /\ procs[p].pc = "read" /\ Arm(procs[p].t) = "insert"
    /\ LET name   == procs[p].t[2]
           values == SubSeq(procs[p].t, 3, Len(procs[p].t))
           r      == insert_row(store, name, values, FALSE)
       IN  IF r.out.kind = "inserted"
           THEN procs' = [procs EXCEPT
                            ![p].pc = "loaded",
                            ![p].base = load_table(store, name).table,
                            ![p].table = insert_row_loaded(store, name, values)]
           ELSE procs' = [procs EXCEPT ![p].pc = r.pc, ![p].out = r.out]
    /\ UNCHANGED <<store, pc, t, out, n, inserted>>

\* insert_row, lines 90-91, in process p.
SharedInsertSave(p) ==
    /\ procs[p].pc = "loaded"
    /\ LET r == insert_row_save(store, procs[p].table)
       IN  /\ store' = r.files
           /\ procs' = [procs EXCEPT ![p].pc = r.pc, ![p].out = r.out]
    /\ UNCHANGED <<pc, t, out, n, inserted>>

\* Any other command but EXIT, in process p.
SharedCommand(p) ==
    /\ procs[p].pc = "read" /\ Arm(procs[p].t) \notin {"insert", "exit"}
    /\ LET r == Handle(store, procs[p].t)
       IN  /\ store' = r.files
           /\ procs' = [procs EXCEPT ![p].pc = r.pc, ![p].out = r.out]
    /\ UNCHANGED <<pc, t, out, n, inserted>>

SharedExit(p) ==
    /\ procs[p].pc = "read" /\ Arm(procs[p].t) = "exit"
    /\ procs' = [procs EXCEPT ![p].pc = "exited"]
    /\ UNCHANGED <<store, pc, t, out, n, inserted>>

\* The end of one iteration of the loop of main, in process p.
SharedLoop(p) ==
    /\ procs[p].pc = "done"
    /\ procs' = [procs EXCEPT ![p] = Started]
    /\ UNCHANGED <<store, pc, t, out, n, inserted>>

NextShared ==
    \E p \in Procs :
        \/ SharedReadLine(p)
        \/ SharedInsertLoad(p)
        \/ SharedInsertSave(p)
        \/ SharedCommand(p)
        \/ SharedExit(p)
        \/ SharedLoop(p)

SpecShared == Init /\ [][NextShared]_vars

\* ------------------------------------------------------------------ claims
\* The values of the INSERT being executed, and the file it names.
InsertValues == SubSeq(t, 3, Len(t))
Executing(arm) == pc = "read" /\ Arm(t) = arm
Executed(arm) == pc \in {"done", "panicked"} /\ Arm(t) = arm

ColumnLengths(file) == {Len(file.data[c]) : c \in DOMAIN file.data}

\* C1: every persisted table has all its column sequences of one common
\* length, after any sequence of commands.
C1_ColumnsOfEqualLength ==
    \A nm \in DOMAIN store : Cardinality(ColumnLengths(store[nm])) <= 1

\* C2: a successful INSERT makes every column sequence of the table exactly
\* one element longer and leaves all columns of equal length.
C2_InsertGrowsEveryColumnByOne ==
    [][(Executing("insert") /\ out'.kind = "inserted") =>
         /\ \A c \in DOMAIN store[t[2]].data :
               Len(store'[t[2]].data[c]) = Len(store[t[2]].data[c]) + 1
         /\ Cardinality(ColumnLengths(store'[t[2]])) <= 1]_vars

CoercionFails(file, values) ==
    \E i \in 1..Len(file.columns) :
        /\ i <= Len(values)
        /\ ~parse_value(file.fields[file.columns[i]], values[i]).ok

\* C4: an INSERT with a value that cannot be coerced to the type of its
\* column, at any position of the row, leaves the persisted table as it was.
C4_CoercionFailureChangesNothing ==
    [][(/\ Executing("insert")
        /\ t[2] \in DOMAIN store
        /\ CoercionFails(store[t[2]], InsertValues)) => store' = store]_vars

\* An INSERT whose first two values were coerced and appended in memory, and
\* whose third could not be, has ended; the table holds its earlier row only.
C4_Witness ==
    /\ Executed("insert")
    /\ out.kind = "panic_parse"
    /\ t[2] \in DOMAIN store
    /\ Len(store[t[2]].columns) = 3
    /\ InsertLoop(load_table(store, t[2]).table, InsertValues, 1).at = 3
    /\ ColumnLengths(store[t[2]]) = {1}

\* C5: no error ends the session; the interpreter stops only when an EXIT
\* command is read.
C5_OnlyExitEndsTheSession ==
    pc \notin {"prompt", "read", "done"} => (pc = "exited" /\ MatchExit(t))

\* C6: a save that is interrupted never corrupts what was persisted before:
\* a file that held a complete document holds a complete document afterwards
\* (unless it was dropped).
C6_PersistedTablesStayComplete ==
    [][\A nm \in DOMAIN store :
         (store[nm].complete /\ nm \in DOMAIN store') => store'[nm].complete]_vars

\* A column spec as the specification wants it: exactly two parts around one
\* colon, neither of them empty.
WellFormed(c) ==
    LET parts == split(c) IN Len(parts) = 2 /\ parts[1] # <<>> /\ parts[2] # <<>>

CreateSpecs == SubSeq(t, 4, Len(t))

\* C7: after a CREATE TABLE whose specs are all well-formed, the table
\* persisted under that name has the spec names as its ordered column list,
\* the spec types as its type mapping, and an empty sequence for every column.
C7_CreatePersistsTheSchema ==
    [][(Executing("create") /\ \A k \in 1..Len(CreateSpecs) : WellFormed(CreateSpecs[k])) =>
         /\ t[3] \in DOMAIN store'
         /\ store'[t[3]].columns = [k \in 1..Len(CreateSpecs) |-> split(CreateSpecs[k])[1]]
         /\ \A k \in 1..Len(CreateSpecs) :
               store'[t[3]].fields[split(CreateSpecs[k])[1]] = split(CreateSpecs[k])[2]
         /\ \A c \in DOMAIN store'[t[3]].data : store'[t[3]].data[c] = <<>>]_vars

\* C8: a CREATE TABLE with a spec that does not split into exactly two
\* non-empty parts is rejected with a syntax diagnostic and leaves the store
\* unchanged.
C8_MalformedSpecCreatesNothing ==
    [][(Executing("create") /\ \E k \in 1..Len(CreateSpecs) : ~WellFormed(CreateSpecs[k])) =>
         (out'.kind = "syntax_error" /\ store' = store)]_vars

\* C9: the ordered column list of a persisted table holds no name twice.
C9_NoDuplicateColumns ==
    \A nm \in DOMAIN store :
        \A i, j \in 1..Len(store[nm].columns) :
            store[nm].columns[i] = store[nm].columns[j] => i = j

\* C10: in every persisted table the names of the ordered column list are
\* exactly the keys of the type mapping and the keys of the column data.
C10_ColumnsTypesDataAgree ==
    \A nm \in DOMAIN store :
        /\ Range(store[nm].columns) = DOMAIN store[nm].fields
        /\ Range(store[nm].columns) = DOMAIN store[nm].data

\* A table of three distinct columns holds a row.
C10_Witness ==
    \E nm \in DOMAIN store :
        /\ Cardinality(Range(store[nm].columns)) = 3
        /\ ColumnLengths(store[nm]) = {1}

\* C11: SELECT * on a table returns exactly the rows of the INSERTs that
\* succeeded on it since it was created, in the order of insertion, each with
\* the coerced values of its INSERT in schema column order; their number is
\* the length of the first schema column's sequence.
C11_SelectAllReturnsTheInsertedRows ==
    (Executed("select_all") /\ t[4] \in DOMAIN inserted) =>
        /\ out.kind = "rows"
        /\ out.rows = inserted[t[4]]
        /\ store[t[4]].columns # <<>> =>
              Len(out.rows) = Len(store[t[4]].data[store[t[4]].columns[1]])

\* The indices of the cells of column col of file that are the Int32 value v.
Int32Hits(file, col, v) ==
    {i \in 1..Len(file.data[col]) :
        file.data[col][i].tag = "Integer32" /\ file.data[col][i].i = v}

\* C12: SELECT * FROM t WHERE col = v on an existing column of a persisted
\* table returns the full row at the lowest index whose cell in col is the
\* Int32 value v, and only that row; when no cell of col is Int32(v) it
\* reports that no row was found.
C12_SelectWhereReturnsFirstMatch ==
    (/\ Executed("select_where")
     /\ ParseI32(t[8]).ok
     /\ t[4] \in DOMAIN store
     /\ t[6] \in DOMAIN store[t[4]].data) =>
        LET file == store[t[4]]
            hits == Int32Hits(file, t[6], ParseI32(t[8]).v)
            first == CHOOSE i \in hits : \A j \in hits : i <= j
        IN  IF hits = {}
            THEN out.kind = "no_row"
            ELSE /\ out.kind = "row"
                 /\ out.rows = << [k \in 1..Len(file.columns) |->
                                     file.data[file.columns[k]][first]] >>

\* C13: SHOW TABLES lists exactly the names created by a successful CREATE
\* TABLE and not dropped since.
C13_ShowTablesListsTheLiveTables ==
    Executed("show") => (out.kind = "tables" /\ out.names = DOMAIN inserted)

\* SHOW TABLES has listed one name while the other name is not persisted.
C13_Witness ==
    /\ Executed("show")
    /\ out.names = {<<"u">>}
    /\ <<"t">> \notin DOMAIN store

\* C14: a SELECT ... WHERE whose value is not a 32-bit signed integer literal
\* is rejected with the only-integer diagnostic before any table is loaded:
\* the outcome is the same whether or not the table or the column exists, and
\* the store is unchanged.
C14_NonIntegerFilterRejectedAtParseTime ==
    [][(Executing("select_where") /\ ~ParseI32(t[8]).ok) =>
         (out' = Out("only_integer") /\ pc' = "done" /\ store' = store)]_vars

\* A filter on a number beyond the range of i32 has been rejected, on a table
\* that is not persisted.
C14_Witness ==
    /\ Executed("select_where")
    /\ t[8] = TooBig
    /\ t[4] \notin DOMAIN store
    /\ out.kind = "only_integer"

\* C15: every persisted table can be loaded, and saving the unmodified load
\* reproduces the persisted table (same schema, same cells in the same order).
C15_LoadThenSaveReproducesTheTable ==
    \A nm \in DOMAIN store :
        /\ load_table(store, nm).ok
        /\ save_table(store, load_table(store, nm).table) = store

\* The step is a CREATE or a DROP naming the table nm.
CreatesOrDrops(nm) == (Executing("create") \/ Executing("drop")) /\ t[3] = nm

\* The step is an INSERT naming nm that reports its row inserted.
InsertsInto(nm) == Executing("insert") /\ t[2] = nm /\ out'.kind = "inserted"

\* C16: between the CREATE and the next CREATE or DROP of a name the persisted
\* table keeps its schema; a successful INSERT naming it appends exactly one
\* cell to every column after the existing ones, and every other step leaves
\* the persisted table as it was.
C16_OnlyInsertChangesATable ==
    [][\A nm \in DOMAIN store :
          ~CreatesOrDrops(nm) =>
             /\ nm \in DOMAIN store'
             /\ store'[nm].columns = store[nm].columns
             /\ store'[nm].fields = store[nm].fields
             /\ IF InsertsInto(nm)
                THEN \A c \in DOMAIN store[nm].data :
                        /\ Len(store'[nm].data[c]) = Len(store[nm].data[c]) + 1
                        /\ SubSeq(store'[nm].data[c], 1, Len(store[nm].data[c]))
                              = store[nm].data[c]
                ELSE store'[nm] = store[nm]]_vars

\* Process p has saved its INSERT while q, which loaded the same contents of
\* the same file, has not saved yet: both loaded before either saved.
SavedAhead(p, q) ==
    /\ p # q
    /\ procs[p].pc = "done" /\ Arm(procs[p].t) = "insert"
    /\ procs[p].out.kind = "inserted"
    /\ procs[q].pc = "loaded"
    /\ procs[q].t[2] = procs[p].t[2]
    /\ procs[q].base = procs[p].base
    /\ procs[p].t[2] \in DOMAIN store
    /\ store[procs[p].t[2]] = serialize(procs[p].table)

\* C17: when both processes loaded the table before either saved it, the
\* second save also reports success and leaves the file holding what the
\* second saver loaded plus its own row only: the row of the first saver is
\* gone and neither process is told.
C17_LastWriterWins ==
    [][\A p, q \in Procs :
          (SavedAhead(p, q) /\ procs'[q].pc # "loaded") =>
             LET name == procs[q].t[2]
                 base == procs[q].base
                 row  == CoercedRow(base, SubSeq(procs[q].t, 3, Len(procs[q].t)))
             IN  /\ procs'[q].pc = "done"
                 /\ procs'[q].out.kind = "inserted"
                 /\ procs'[p].out.kind = "inserted"
                 /\ store'[name].columns = base.columns
                 /\ \A k \in 1..Len(base.columns) :
                       store'[name].data[base.columns[k]]
                          = Append(base.data[base.columns[k]], row[k])]_vars

C17_Witness ==
    \E p, q \in Procs :
        /\ p # q
        /\ procs[p].pc = "done" /\ procs[p].out.kind = "inserted"
        /\ procs[q].pc = "done" /\ procs[q].out.kind = "inserted"
        /\ procs[p].base = procs[q].base
        /\ procs[p].base.data[<<"a">>] # <<>>
        /\ procs[p].table # procs[q].table
        /\ store[<<"t">>] = serialize(procs[q].table)

\* The shapes that the token sequence t0 fits, each taken on its own.
Fits(t0) ==
    {a \in {"create", "show", "drop", "insert", "select_all", "select_where",
            "help", "exit"} :
        CASE a = "create" -> MatchCreate(t0)
          [] a = "show" -> MatchShow(t0)
          [] a = "drop" -> MatchDrop(t0)
          [] a = "insert" -> MatchInsert(t0)
          [] a = "select_all" -> MatchSelectAll(t0)
          [] a = "select_where" -> MatchSelectWhere(t0)
          [] a = "help" -> MatchHelp(t0)
          [] a = "exit" -> MatchExit(t0)}

Vocabulary ==
    {W("CREATE"), W("TABLE"), W("SHOW"), W("TABLES"), W("DROP"), W("INSERT"),
     W("SELECT"), W("*"), W("FROM"), W("WHERE"), W("="), W("HELP"), W("EXIT"),
     W("t"), aInt}

\* The lines explored, every sequence of up to three words of the grammar,
\* and every such sequence after SELECT * FROM t.
TokenSequences ==
    LET short == {<<>>} \cup UNION {[1..k -> Vocabulary] : k \in {1, 2, 3}}
    IN  {tokenize(l) : l \in Lines} \cup short
          \cup {<<W("SELECT"), W("*"), W("FROM"), W("t")>> \o x : x \in short}

\* C18 as the specification states it: some token sequence that can be typed
\* at the prompt fits more than one shape, so that the order of the match
\* decides its outcome.
C18_SomeLineFitsTwoShapes ==
    pc = "prompt" => \E t0 \in TokenSequences : Cardinality(Fits(t0)) > 1

\* C18 as the code has it: the shapes are mutually exclusive.  The line read
\* fits at most one shape, and the arm taken is that shape, or the default arm
\* when it fits none, in whatever order the shapes are tried.
C18_ShapesAreMutuallyExclusive ==
    pc = "read" =>
        /\ Cardinality(Fits(t)) <= 1
        /\ Fits(t) = IF Arm(t) = "invalid" THEN {} ELSE {Arm(t)}

C18_Witness ==
    /\ Executed("select_where")
    /\ SubSeq(t, 1, 4) = <<W("SELECT"), W("*"), W("FROM"), W("t")>>
    /\ MatchSelectAll(SubSeq(t, 1, 4))
    /\ out.kind = "no_row"

\* The persisted cell is a value of the declared type typ.
HasType(typ, cell) ==
    IF typ = <<"int">>
    THEN cell.tag = "Integer32" /\ cell.i >= I32Min /\ cell.i <= I32Max
    ELSE IF typ = <<"float">>
    THEN cell.tag = "Float32" /\ cell.f.cls # "null"
    ELSE cell.tag = "String"

\* C19: every cell of every persisted table is a value of the type its
\* column declares, and the cell a successful INSERT stores in a column of any
\* type other than int and float is the token typed.
C19_CellsHaveTheDeclaredType ==
    /\ \A nm \in DOMAIN store : \A c \in DOMAIN store[nm].data :
          \A i \in 1..Len(store[nm].data[c]) :
             HasType(store[nm].fields[c], store[nm].data[c][i])
    /\ (Executed("insert") /\ out.kind = "inserted") =>
          LET file == store[t[2]]
          IN  \A k \in 1..Len(file.columns) :
                 LET c == file.columns[k]
                 IN  (/\ file.fields[c] \notin {<<"int">>, <<"float">>}
                      /\ \A j \in (k + 1)..Len(file.columns) : file.columns[j] # c)
                     => file.data[c][Len(file.data[c])].s = InsertValues[k]

====
